---- MODULE Spec2Model ----
(***************************************************************************)
(* Benchmark harness of src/main.go: two program variants that write a     *)
(* dataset of generated records to a Redis store, read it back three ways  *)
(* (direct, pipelined, Lua script), report a row and clean up.             *)
(*   variant 1 = first program  (src/main.go lines 1-194)                  *)
(*   variant 2 = second program (src/main.go lines 196-393)                *)
(* The store is the Redis server the go-redis client talks to; its         *)
(* commands are modelled with Redis' typed-key semantics.                  *)
(***************************************************************************)
EXTENDS Integers, Sequences, FiniteSets, TLC

VARIABLES variant, sampleCounts, store, store0, pc, idx, i, nextId, recs,
          keys, hashKeys, prevKeys, insertedKeys,
          delKeys, delPos, delRet, err,
          beforeBytes, afterBytes, deltaBytes, human,
          reads, pipeRes, luaRes, rows, cmds, lastInfo

\* variant       which program runs: 1 = lines 1-194, 2 = lines 196-393
\* sampleCounts  the configured list of dataset sizes
\* store         the content of Redis DB 0: key -> typed value
\* store0        the content of DB 0 when the run started
\* pc            the position of main (and of deleteInsertedKeys when "del")
\* idx           position of the size loop in sampleCounts, from 1
\* i             index of the insert loop and of the direct-read loop, from 0
\* nextId        the next fresh uuid
\* recs          the records generated for the current size; the last is rec
\* keys          keys (first program) or jsonKeys (second program)
\* hashKeys      hashKeys (second program)
\* prevKeys      prevKeys (first program)
\* insertedKeys  insertedKeys
\* delKeys, delPos, delRet   deleteInsertedKeys: its keys, its i, its caller
\* err           the error log.Fatalf ended the run with, or "none"
\* beforeBytes, afterBytes, deltaBytes, human   the memory samples
\* reads, pipeRes, luaRes    what the three reads of the current size returned
\* rows          the sizes whose result row was printed
\* cmds          every store command issued, in order, with its outcome
\* lastInfo      the text the last INFO memory command replied
vars == <<variant, sampleCounts, store, store0, pc, idx, i, nextId, recs,
          keys, hashKeys, prevKeys, insertedKeys,
          delKeys, delPos, delRet, err,
          beforeBytes, afterBytes, deltaBytes, human,
          reads, pipeRes, luaRes, rows, cmds, lastInfo>>

(***************************************************************************)
(* Bounds of the model.                                                    *)
(***************************************************************************)
\* largest dataset size of a configured list (the source uses 10 .. 100000)
MaxN == 2
\* largest number of dataset sizes in the configured list (the source has 5)
MaxSizes == 2
\* longest key list deleteInsertedKeys is called with on its own
MaxKeys == 5

\* const batchSize of deleteInsertedKeys, scaled from 1000 so that the bounded
\* key lists span more than one chunk
batchSize == 2

(***************************************************************************)
(* Data.                                                                   *)
(***************************************************************************)
Range(s) == {s[j] : j \in 1..Len(s)}

\* sampleCounts: an ascending list of dataset sizes
SizeLists ==
    {s \in UNION {[1..l -> 0..MaxN] : l \in 1..MaxSizes} :
        \A j \in 1..(Len(s) - 1) : s[j] < s[j + 1]}

\* randStr(8) + "@example.com": two of the possible random emails
Emails == {"aaaaaaaa@example.com", "bbbbbbbb@example.com"}

\* generateRecord: a fresh uuid (modelled by a counter), random name, email, amount
Record(id, email) == [ID |-> id, Name |-> "nnnnnn", Email |-> email, Amount |-> 100]

\* json.Marshal(rec): the JSON object text with the four tagged fields
Marshal(r) == <<"{", "id", r.ID, "name", r.Name, "email", r.Email, "amount", r.Amount, "}">>

\* key derivation: prefix + rec.ID
Key(prefix, id) == <<prefix, id>>
BenchKey(r) == Key("bench:", r.ID)
\* the JSON key without the run's namespace
JsonKey_NoNamespace(r) == Key("json:", r.ID)
JsonKey(r) == Key("bench:json:", r.ID)
HashKeyOf(r) == Key("bench:hash:", r.ID)

\* keys per record written by each variant
KeysPerRecord(v) == IF v = 1 THEN 1 ELSE 2

(***************************************************************************)
(* The store: a Redis database, key -> typed value.                        *)
(***************************************************************************)
NoFields == [f \in {} |-> ""]
StrVal(v) == [type |-> "string", val |-> v, fields |-> NoFields]
HashVal(fs) == [type |-> "hash", val |-> <<>>, fields |-> fs]

\* content other clients, or an earlier run with other uuids, may have left
\* in DB 0 before the run
PreContent ==
    (Key("user:", 1) :> StrVal(Marshal(Record(0, "zzzzzzzz@example.com"))))
    @@ (Key("cfg:", 1) :> HashVal("email" :> "ops@example.com"))
    @@ (Key("bench:", 0) :> StrVal(Marshal(Record(0, "yyyyyyyy@example.com"))))

Restrict(f, S) == [x \in S |-> f[x]]

InitStores == {Restrict(PreContent, S) : S \in SUBSET DOMAIN PreContent}

\* a reply: the store after the command, the error ("none" when it succeeded),
\* and the value (<<>> for a nil reply, <<v>> for a value)
Reply(s, e, v) == [st |-> s, err |-> e, val |-> v]

\* SET key value: overwrites whatever the key held
SetCmd(s, k, v) == Reply((k :> StrVal(v)) @@ s, "none", <<"OK">>)

\* HSET key field value: WRONGTYPE when the key holds a string
HSetCmd(s, k, f, v) ==
    IF k \notin DOMAIN s
    THEN Reply((k :> HashVal(f :> v)) @@ s, "none", <<1>>)
    ELSE IF s[k].type # "hash"
    THEN Reply(s, "WRONGTYPE", <<>>)
    ELSE Reply((k :> HashVal((f :> v) @@ s[k].fields)) @@ s, "none",
               <<IF f \in DOMAIN s[k].fields THEN 0 ELSE 1>>)

\* GET that also removes the key it read (GETDEL)
GetCmd_GetDel(s, k) ==
    IF k \notin DOMAIN s THEN Reply(s, "nil", <<>>)
    ELSE IF s[k].type # "string" THEN Reply(s, "WRONGTYPE", <<>>)
    ELSE Reply([x \in DOMAIN s \ {k} |-> s[x]], "none", <<s[k].val>>)

\* GET key: redis.Nil when absent, WRONGTYPE when the key holds a hash
GetCmd(s, k) ==
    IF k \notin DOMAIN s THEN Reply(s, "nil", <<>>)
    ELSE IF s[k].type # "string" THEN Reply(s, "WRONGTYPE", <<>>)
    ELSE Reply(s, "none", <<s[k].val>>)

\* HGET key field: redis.Nil when key or field is absent, WRONGTYPE on a string
HGetCmd(s, k, f) ==
    IF k \notin DOMAIN s THEN Reply(s, "nil", <<>>)
    ELSE IF s[k].type # "hash" THEN Reply(s, "WRONGTYPE", <<>>)
    ELSE IF f \notin DOMAIN s[k].fields THEN Reply(s, "nil", <<>>)
    ELSE Reply(s, "none", <<s[k].fields[f]>>)

\* DEL treating an absent key as an error
DelCmd_ErrOnAbsent(s, ks) ==
    IF Range(ks) \subseteq DOMAIN s
    THEN Reply(Restrict(s, DOMAIN s \ Range(ks)), "none", <<Len(ks)>>)
    ELSE Reply(s, "ERR no such key", <<>>)

\* DEL key...: removes the keys that exist, replies their number, never errors
DelCmd(s, ks) ==
    Reply(Restrict(s, DOMAIN s \ Range(ks)), "none",
          <<Cardinality(DOMAIN s \cap Range(ks))>>)

\* INFO memory: replies a text, changes nothing
InfoCmd(s, info) == Reply(s, "none", <<info>>)

\* FLUSHDB: removes every key of the database
FlushDBCmd(s) == Reply(Restrict(s, {}), "none", <<"OK">>)

(***************************************************************************)
(* The client library calls that are more than one store command.          *)
(***************************************************************************)
\* pipe.Get(key); pipe.HGet(hkey, "email") for every record, then pipe.Exec:
\* the server runs every queued command, the replies come back in submission
\* order, and Exec returns the first error among them
PipeCmds(ks, hks, cnt) ==
    [j \in 1..(2 * cnt) |->
        IF j % 2 = 1 THEN [op |-> "GET", key |-> ks[(j + 1) \div 2]]
                     ELSE [op |-> "HGET", key |-> hks[j \div 2]]]

PipeReplies(s, q) ==
    [j \in 1..Len(q) |->
        IF q[j].op = "GET" THEN GetCmd(s, q[j].key) ELSE HGetCmd(s, q[j].key, "email")]

FirstErr(rs) ==
    IF \A j \in 1..Len(rs) : rs[j].err = "none" THEN "none"
    ELSE rs[CHOOSE j \in 1..Len(rs) :
                /\ rs[j].err # "none"
                /\ \A l \in 1..(j - 1) : rs[l].err = "none"].err

PipelineExec(s, q) ==
    LET rs == PipeReplies(s, q)
    IN  Reply(s, FirstErr(rs), [j \in 1..Len(rs) |-> rs[j].val])

\* redis.call inside a script: a nil reply is the Lua value false (here <<>>),
\* an error reply aborts the script
LuaCall(r) == IF r.err = "nil" THEN Reply(r.st, "none", <<>>) ELSE r

\* the script body inserting each entry at the front of the result table
LuaBody_Prepend(s, getKeys, hgetKeys) ==
    LET v(j) == LuaCall(GetCmd(s, getKeys[j]))
        e(j) == LuaCall(HGetCmd(s, hgetKeys[j], "email"))
        bad  == {j \in 1..Len(getKeys) : v(j).err # "none" \/ e(j).err # "none"}
        m    == Len(getKeys)
    IN  IF bad # {}
        THEN Reply(s, "WRONGTYPE", <<>>)
        ELSE Reply(s, "none", [j \in 1..m |-> <<v(m + 1 - j).val, e(m + 1 - j).val>>])

\* the script body: for each position, {GET getKeys[j], HGET hgetKeys[j] "email"}
LuaBody(s, getKeys, hgetKeys) ==
    LET v(j) == LuaCall(GetCmd(s, getKeys[j]))
        e(j) == LuaCall(HGetCmd(s, hgetKeys[j], "email"))
        bad  == {j \in 1..Len(getKeys) : v(j).err # "none" \/ e(j).err # "none"}
    IN  IF bad # {}
        THEN Reply(s, "WRONGTYPE", <<>>)
        ELSE Reply(s, "none", [j \in 1..Len(getKeys) |-> <<v(j).val, e(j).val>>])

\* first program: lua.Run(ctx, rdb, nil, keys): KEYS is empty, ARGV = keys,
\* and the script GETs and HGETs each ARGV entry
LuaScript1(s, KEYS, ARGV) == LuaBody(s, ARGV, ARGV)

\* second program: luaScript.Run(ctx, rdb, jsonKeys, hashKeys): for i = 1..#KEYS
\* GET KEYS[i] and HGET ARGV[i]
LuaScript2(s, KEYS, ARGV) == LuaBody(s, KEYS, ARGV)

(***************************************************************************)
(* getMemory: INFO memory, parsed by line prefix.                          *)
(***************************************************************************)
Line(name, num, text) == [name |-> name, num |-> num, text |-> text]

\* texts the INFO memory command may reply
InfoTexts ==
    { <<Line("# Memory", 0, ""), Line("used_memory", 100, ""),
        Line("used_memory_human", 0, "100B"), Line("used_memory_rss", 900, "")>>,
      <<Line("used_memory_human", 0, "200B"), Line("used_memory", 200, "")>>,
      <<Line("# Memory", 0, ""), Line("maxmemory", 0, "")>> }

LastWith(info, name) ==
    LET js == {j \in 1..Len(info) : info[j].name = name}
    IN  IF js = {} THEN 0 ELSE CHOOSE j \in js : \A l \in js : l <= j

\* getMemory reporting a missing used_memory line as -1
ParseMemory_MissSentinel(info) ==
    [bytes |-> IF LastWith(info, "used_memory") = 0 THEN -1
               ELSE info[LastWith(info, "used_memory")].num,
     human |-> IF LastWith(info, "used_memory_human") = 0 THEN ""
               ELSE info[LastWith(info, "used_memory_human")].text]

\* the (bytes, human) pair getMemory returns for an INFO text
ParseMemory(info) ==
    [bytes |-> IF LastWith(info, "used_memory") = 0 THEN 0
               ELSE info[LastWith(info, "used_memory")].num,
     human |-> IF LastWith(info, "used_memory_human") = 0 THEN ""
               ELSE info[LastWith(info, "used_memory_human")].text]

(***************************************************************************)
(* The run.                                                                *)
(***************************************************************************)
\* a store command either completes, or the connection fails before the
\* server received it, or after the server ran it
NetOutcomes == {"ok", "noreach", "noreply"}

\* the error of a command discarded
Failed_Ignored(o) == FALSE

\* err != nil
Failed(o) == o # "none"

Outcome(net, rep) == IF net = "ok" THEN rep.err ELSE "conn"
Effect(net, rep) == IF net = "noreach" THEN store ELSE rep.st

\* one issued store command, with the loop iteration and phase that issued it
Cmd(op, ks, phase, res) ==
    [op |-> op, keys |-> ks, size |-> idx, phase |-> phase, res |-> res]

n == IF idx \in 1..Len(sampleCounts) THEN sampleCounts[idx] ELSE 0

\* the zero value of a string slot of make([]string, n)
EmptyKey == Key("", 0)

\* the insert loop running one record too many
MoreToWrite_OneMore(j) == j <= n

\* the insert loop stopping one record early
MoreToWrite_OffByOne(j) == j < n - 1

\* the insert loop's condition i < n
MoreToWrite(j) == j < n

\* the loop body starting at the memory sample, without the cleanup step
IterStart_SkipCleanup(v) == "memBefore"

\* where a loop iteration starts: 4a in the first program, a) in the second
IterStart(v) == IF v = 1 THEN "cleanPrev" ELSE "flush"

Init ==
    /\ variant \in {1, 2}
    /\ sampleCounts \in SizeLists
    /\ store \in InitStores
    /\ store0 = store
    /\ pc = IterStart(variant)
    /\ idx = 1
    /\ i = 0
    /\ nextId = 1
    /\ recs = <<>>
    /\ keys = <<>>
    /\ hashKeys = <<>>
    /\ prevKeys = <<>>
    /\ insertedKeys = <<>>
    /\ delKeys = <<>>
    /\ delPos = 0
    /\ delRet = ""
    /\ err = "none"
    /\ beforeBytes = 0
    /\ afterBytes = 0
    /\ deltaBytes = 0
    /\ human = ""
    /\ reads = <<>>
    /\ pipeRes = <<>>
    /\ luaRes = <<>>
    /\ rows = <<>>
    /\ cmds = <<>>
    /\ lastInfo = <<>>

\* log.Fatalf: the process exits
Fatal(e) == err' = e /\ pc' = "fatal"

(***************************************************************************)
(* deleteInsertedKeys(rdb, keys), entered with delKeys, delPos = 0 and the *)
(* caller's continuation delRet.                                           *)
(***************************************************************************)
Min(a, b) == IF a < b THEN a ELSE b

\* a final chunk shorter than batchSize left out
Chunk_NoPartial(ks, pos) ==
    IF pos + batchSize > Len(ks) THEN <<>> ELSE SubSeq(ks, pos + 1, pos + batchSize)

\* a chunk that drops its last key
Chunk_DropLast(ks, pos) == SubSeq(ks, pos + 1, Min(pos + batchSize, Len(ks)) - 1)

\* keys[i:end] of the loop iteration at position pos
Chunk(ks, pos) == SubSeq(ks, pos + 1, Min(pos + batchSize, Len(ks)))

\* deleteInsertedKeys run to its return on a connection that does not fail
RECURSIVE DeleteInsertedKeys(_, _, _)
DeleteInsertedKeys(s, ks, pos) ==
    IF pos >= Len(ks) THEN Reply(s, "none", <<>>)
    ELSE LET rep == DelCmd(s, Chunk(ks, pos))
         IN  IF Failed(rep.err) THEN rep
             ELSE DeleteInsertedKeys(rep.st, ks, pos + batchSize)

\* one iteration of the batch loop: DEL of the next chunk; an error is
\* returned to the caller, which calls log.Fatalf
DelBatch ==
    /\ pc = "del"
    /\ delPos < Len(delKeys)
    /\ \E net \in NetOutcomes :
        LET chunk == Chunk(delKeys, delPos)
            rep   == DelCmd(store, chunk)
        IN  /\ cmds' = Append(cmds, Cmd("DEL", chunk, "cleanup", Outcome(net, rep)))
            /\ store' = Effect(net, rep)
            /\ IF ~Failed(Outcome(net, rep))
               THEN /\ delPos' = delPos + batchSize
                    /\ UNCHANGED <<pc, err>>
               ELSE /\ Fatal(Outcome(net, rep))
                    /\ UNCHANGED delPos
    /\ UNCHANGED <<lastInfo, variant, sampleCounts, store0, idx, i, nextId, recs, keys,
                   hashKeys, prevKeys, insertedKeys, delKeys, delRet,
                   beforeBytes, afterBytes, deltaBytes, human, reads, pipeRes,
                   luaRes, rows>>

\* the loop is over: return nil to the caller
DelReturn ==
    /\ pc = "del"
    /\ delPos >= Len(delKeys)
    /\ pc' = delRet
    /\ UNCHANGED <<lastInfo, variant, sampleCounts, store, store0, idx, i, nextId, recs,
                   keys, hashKeys, prevKeys, insertedKeys, delKeys, delPos,
                   delRet, err, beforeBytes, afterBytes, deltaBytes, human,
                   reads, pipeRes, luaRes, rows, cmds>>

(***************************************************************************)
(* main: the start of a loop iteration.                                    *)
(***************************************************************************)
\* first program, 4a: delete the previous size's keys when there are any
CleanupPrev ==
    /\ pc = "cleanPrev"
    /\ variant = 1
    /\ IF Len(prevKeys) > 0
       THEN /\ delKeys' = prevKeys
            /\ delPos' = 0
            /\ delRet' = "resetPrev"
            /\ pc' = "del"
       ELSE /\ pc' = "resetPrev"
            /\ UNCHANGED <<delKeys, delPos, delRet>>
    /\ UNCHANGED <<lastInfo, variant, sampleCounts, store, store0, idx, i, nextId, recs,
                   keys, hashKeys, prevKeys, insertedKeys, err, beforeBytes,
                   afterBytes, deltaBytes, human, reads, pipeRes, luaRes, rows,
                   cmds>>

\* first program: prevKeys = prevKeys[:0]
ResetPrev ==
    /\ pc = "resetPrev"
    /\ prevKeys' = <<>>
    /\ pc' = "memBefore"
    /\ UNCHANGED <<lastInfo, variant, sampleCounts, store, store0, idx, i, nextId, recs,
                   keys, hashKeys, insertedKeys, delKeys, delPos, delRet, err,
                   beforeBytes, afterBytes, deltaBytes, human, reads, pipeRes,
                   luaRes, rows, cmds>>

\* second program, a: FLUSHDB before each size
FlushBefore ==
    /\ pc = "flush"
    /\ variant = 2
    /\ \E net \in NetOutcomes :
        LET rep == FlushDBCmd(store)
        IN  /\ cmds' = Append(cmds, Cmd("FLUSHDB", <<>>, "cleanup", Outcome(net, rep)))
            /\ store' = Effect(net, rep)
            /\ IF ~Failed(Outcome(net, rep))
               THEN pc' = "memBefore" /\ UNCHANGED err
               ELSE Fatal(Outcome(net, rep))
    /\ UNCHANGED <<lastInfo, variant, sampleCounts, store0, idx, i, nextId, recs, keys,
                   hashKeys, prevKeys, insertedKeys, delKeys, delPos, delRet,
                   beforeBytes, afterBytes, deltaBytes, human, reads, pipeRes,
                   luaRes, rows>>

\* getMemory before inserting, then the key slices of this size are made
\* and the insert loop starts
MemBefore ==
    /\ pc = "memBefore"
    /\ \E net \in NetOutcomes, info \in InfoTexts :
        LET rep == InfoCmd(store, info)
            mem == ParseMemory(rep.val[1])
        IN  /\ cmds' = Append(cmds, Cmd("INFO", <<>>, "memBefore", Outcome(net, rep)))
            /\ store' = Effect(net, rep)
            /\ IF ~Failed(Outcome(net, rep))
               THEN /\ lastInfo' = rep.val[1]
                    /\ beforeBytes' = mem.bytes
                    /\ human' = mem.human
                    /\ keys' = IF variant = 1 THEN <<>> ELSE [j \in 1..n |-> EmptyKey]
                    /\ hashKeys' = IF variant = 1 THEN <<>> ELSE [j \in 1..n |-> EmptyKey]
                    /\ i' = 0
                    /\ recs' = <<>>
                    /\ reads' = <<>>
                    /\ pipeRes' = <<>>
                    /\ luaRes' = <<>>
                    /\ pc' = IF MoreToWrite(0) THEN "set" ELSE "memAfter"
                    /\ UNCHANGED err
               ELSE /\ Fatal(Outcome(net, rep))
                    /\ UNCHANGED <<lastInfo, beforeBytes, human, keys, hashKeys, i, recs,
                                   reads, pipeRes, luaRes>>
    /\ UNCHANGED <<variant, sampleCounts, store0, idx, nextId, prevKeys,
                   insertedKeys, delKeys, delPos, delRet, afterBytes,
                   deltaBytes, rows>>

(***************************************************************************)
(* main: the insert loop.                                                  *)
(***************************************************************************)
\* rec: the record of the current loop iteration
rec == recs[Len(recs)]

\* the key the record's JSON is SET under, and the key its email is HSET under
SetKey(v, r) == IF v = 1 THEN BenchKey(r) ELSE JsonKey(r)
HSetKey(v, r) == IF v = 1 THEN BenchKey(r) ELSE HashKeyOf(r)

\* rec := generateRecord(); SET key json.Marshal(rec)
WriteSet ==
    /\ pc = "set"
    /\ \E email \in Emails, net \in NetOutcomes :
        LET r   == Record(nextId, email)
            key == SetKey(variant, r)
            rep == SetCmd(store, key, Marshal(r))
        IN  /\ recs' = Append(recs, r)
            /\ nextId' = nextId + 1
            /\ cmds' = Append(cmds, Cmd("SET", <<key>>, "write", Outcome(net, rep)))
            /\ store' = Effect(net, rep)
            /\ IF ~Failed(Outcome(net, rep))
               THEN pc' = "hset" /\ UNCHANGED err
               ELSE Fatal(Outcome(net, rep))
    /\ UNCHANGED <<lastInfo, variant, sampleCounts, store0, idx, i, keys, hashKeys,
                   prevKeys, insertedKeys, delKeys, delPos, delRet, beforeBytes,
                   afterBytes, deltaBytes, human, reads, pipeRes, luaRes, rows>>

\* TrackKeys with the hash key left out of insertedKeys
TrackKeys_DropHash ==
    IF variant = 1
    THEN /\ keys' = Append(keys, BenchKey(rec))
         /\ prevKeys' = Append(prevKeys, BenchKey(rec))
         /\ insertedKeys' = Append(insertedKeys, BenchKey(rec))
         /\ UNCHANGED hashKeys
    ELSE /\ keys' = [keys EXCEPT ![i + 1] = JsonKey(rec)]
         /\ hashKeys' = [hashKeys EXCEPT ![i + 1] = HashKeyOf(rec)]
         /\ insertedKeys' = Append(insertedKeys, JsonKey(rec))
         /\ UNCHANGED prevKeys

\* the key lists after a record's two writes succeeded
TrackKeys ==
    IF variant = 1
    THEN /\ keys' = Append(keys, BenchKey(rec))
         /\ prevKeys' = Append(prevKeys, BenchKey(rec))
         /\ insertedKeys' = Append(insertedKeys, BenchKey(rec))
         /\ UNCHANGED hashKeys
    ELSE /\ keys' = [keys EXCEPT ![i + 1] = JsonKey(rec)]
         /\ hashKeys' = [hashKeys EXCEPT ![i + 1] = HashKeyOf(rec)]
         /\ insertedKeys' = insertedKeys \o <<JsonKey(rec), HashKeyOf(rec)>>
         /\ UNCHANGED prevKeys

\* HSET key "email" rec.Email, then the keys are tracked and the loop goes on
WriteHSet ==
    /\ pc = "hset"
    /\ \E net \in NetOutcomes :
        LET key == HSetKey(variant, rec)
            rep == HSetCmd(store, key, "email", rec.Email)
        IN  /\ cmds' = Append(cmds, Cmd("HSET", <<key>>, "write", Outcome(net, rep)))
            /\ store' = Effect(net, rep)
            /\ IF ~Failed(Outcome(net, rep))
               THEN /\ TrackKeys
                    /\ i' = i + 1
                    /\ pc' = IF MoreToWrite(i + 1) THEN "set" ELSE "memAfter"
                    /\ UNCHANGED err
               ELSE /\ Fatal(Outcome(net, rep))
                    /\ UNCHANGED <<keys, hashKeys, prevKeys, insertedKeys, i>>
    /\ UNCHANGED <<lastInfo, variant, sampleCounts, store0, idx, nextId, recs, delKeys,
                   delPos, delRet, beforeBytes, afterBytes, deltaBytes, human,
                   reads, pipeRes, luaRes, rows>>

\* the number of records the read loops visit: range keys in the first
\* program, i < n in the second
ReadCount == IF variant = 1 THEN Len(keys) ELSE n

\* the keys the reads GET, and the keys they HGET
GetKeys == keys
HGetKeys == IF variant = 1 THEN keys ELSE hashKeys

\* getMemory after inserting, and the delta
MemAfter ==
    /\ pc = "memAfter"
    /\ \E net \in NetOutcomes, info \in InfoTexts :
        LET rep == InfoCmd(store, info)
            mem == ParseMemory(rep.val[1])
        IN  /\ cmds' = Append(cmds, Cmd("INFO", <<>>, "memAfter", Outcome(net, rep)))
            /\ store' = Effect(net, rep)
            /\ IF ~Failed(Outcome(net, rep))
               THEN /\ lastInfo' = rep.val[1]
                    /\ afterBytes' = mem.bytes
                    /\ human' = mem.human
                    /\ deltaBytes' = mem.bytes - beforeBytes
                    /\ i' = 0
                    /\ pc' = IF 0 < ReadCount THEN "get" ELSE "pipe"
                    /\ UNCHANGED err
               ELSE /\ Fatal(Outcome(net, rep))
                    /\ UNCHANGED <<lastInfo, afterBytes, human, deltaBytes, i>>
    /\ UNCHANGED <<variant, sampleCounts, store0, idx, nextId, recs, keys,
                   hashKeys, prevKeys, insertedKeys, delKeys, delPos, delRet,
                   beforeBytes, reads, pipeRes, luaRes, rows>>

(***************************************************************************)
(* main: the three reads.                                                  *)
(***************************************************************************)
\* direct fetch: GET of the i-th key
DirectGet ==
    /\ pc = "get"
    /\ \E net \in NetOutcomes :
        LET key == GetKeys[i + 1]
            rep == GetCmd(store, key)
        IN  /\ cmds' = Append(cmds, Cmd("GET", <<key>>, "direct", Outcome(net, rep)))
            /\ store' = Effect(net, rep)
            /\ IF ~Failed(Outcome(net, rep))
               THEN /\ reads' = Append(reads, [get |-> rep.val, hget |-> <<>>])
                    /\ pc' = "hget"
                    /\ UNCHANGED err
               ELSE /\ Fatal(Outcome(net, rep))
                    /\ UNCHANGED reads
    /\ UNCHANGED <<lastInfo, variant, sampleCounts, store0, idx, i, nextId, recs,
                   keys, hashKeys, prevKeys, insertedKeys, delKeys, delPos,
                   delRet, beforeBytes, afterBytes, deltaBytes, human, pipeRes,
                   luaRes, rows>>

\* direct fetch: HGET "email" of the i-th key
DirectHGet ==
    /\ pc = "hget"
    /\ \E net \in NetOutcomes :
        LET key == HGetKeys[i + 1]
            rep == HGetCmd(store, key, "email")
        IN  /\ cmds' = Append(cmds, Cmd("HGET", <<key>>, "direct", Outcome(net, rep)))
            /\ store' = Effect(net, rep)
            /\ IF ~Failed(Outcome(net, rep))
               THEN /\ reads' = [reads EXCEPT ![Len(reads)].hget = rep.val]
                    /\ i' = i + 1
                    /\ pc' = IF i + 1 < ReadCount THEN "get" ELSE "pipe"
                    /\ UNCHANGED err
               ELSE /\ Fatal(Outcome(net, rep))
                    /\ UNCHANGED <<reads, i>>
    /\ UNCHANGED <<lastInfo, variant, sampleCounts, store0, idx, nextId, recs, keys,
                   hashKeys, prevKeys, insertedKeys, delKeys, delPos, delRet,
                   beforeBytes, afterBytes, deltaBytes, human, pipeRes, luaRes,
                   rows>>

\* pipeline fetch: every GET and HGET queued, one Exec; an empty pipeline
\* sends nothing and returns no error
PipelineFetch ==
    /\ pc = "pipe"
    /\ LET q == PipeCmds(GetKeys, HGetKeys, ReadCount)
       IN  IF Len(q) = 0
           THEN /\ pipeRes' = <<>>
                /\ pc' = "lua"
                /\ UNCHANGED <<err, cmds, store>>
           ELSE \E net \in NetOutcomes :
                LET rep == PipelineExec(store, q)
                IN  /\ cmds' = Append(cmds, Cmd("EXEC", [j \in 1..Len(q) |-> q[j].key], "pipeline",
                                                 Outcome(net, rep)))
                    /\ store' = Effect(net, rep)
                    /\ IF ~Failed(Outcome(net, rep))
                       THEN /\ pipeRes' = rep.val
                            /\ pc' = "lua"
                            /\ UNCHANGED err
                       ELSE /\ Fatal(Outcome(net, rep))
                            /\ UNCHANGED pipeRes
    /\ UNCHANGED <<lastInfo, variant, sampleCounts, store0, idx, i, nextId, recs,
                   keys, hashKeys, prevKeys, insertedKeys, delKeys, delPos,
                   delRet, beforeBytes, afterBytes, deltaBytes, human, reads,
                   luaRes, rows>>

\* the script call of each program: (KEYS, ARGV) as passed to Run
LuaRun(v, s, ks, hks) ==
    IF v = 1 THEN LuaScript1(s, <<>>, ks) ELSE LuaScript2(s, ks, hks)

\* the key and value arguments sent with the script
ScriptArgs == IF variant = 1 THEN keys ELSE keys \o hashKeys

\* Lua fetch: one script execution over all keys (Run sends EVALSHA and falls
\* back to EVAL when the script is not cached: one script execution)
LuaFetch ==
    /\ pc = "lua"
    /\ \E net \in NetOutcomes :
        LET rep == LuaRun(variant, store, keys, hashKeys)
        IN  /\ cmds' = Append(cmds, Cmd("EVALSHA", ScriptArgs, "script", Outcome(net, rep)))
            /\ store' = Effect(net, rep)
            /\ IF ~Failed(Outcome(net, rep))
               THEN /\ luaRes' = rep.val
                    /\ pc' = "report"
                    /\ UNCHANGED err
               ELSE /\ Fatal(Outcome(net, rep))
                    /\ UNCHANGED luaRes
    /\ UNCHANGED <<lastInfo, variant, sampleCounts, store0, idx, i, nextId, recs,
                   keys, hashKeys, prevKeys, insertedKeys, delKeys, delPos,
                   delRet, beforeBytes, afterBytes, deltaBytes, human, reads,
                   pipeRes, rows>>

\* the result row is printed and the loop moves to the next size
Report ==
    /\ pc = "report"
    /\ rows' = Append(rows, n)
    /\ idx' = idx + 1
    /\ pc' = IF idx < Len(sampleCounts) THEN IterStart(variant) ELSE "final"
    /\ UNCHANGED <<lastInfo, variant, sampleCounts, store, store0, i, nextId, recs, keys,
                   hashKeys, prevKeys, insertedKeys, delKeys, delPos, delRet,
                   err, beforeBytes, afterBytes, deltaBytes, human, reads,
                   pipeRes, luaRes, cmds>>

\* final cleanup: deleteInsertedKeys(rdb, insertedKeys)
FinalCleanup ==
    /\ pc = "final"
    /\ delKeys' = insertedKeys
    /\ delPos' = 0
    /\ delRet' = "done"
    /\ pc' = "del"
    /\ UNCHANGED <<lastInfo, variant, sampleCounts, store, store0, idx, i, nextId, recs,
                   keys, hashKeys, prevKeys, insertedKeys, err, beforeBytes,
                   afterBytes, deltaBytes, human, reads, pipeRes, luaRes, rows,
                   cmds>>

Next ==
    \/ CleanupPrev
    \/ ResetPrev
    \/ FlushBefore
    \/ MemBefore
    \/ WriteSet
    \/ WriteHSet
    \/ MemAfter
    \/ DirectGet
    \/ DirectHGet
    \/ PipelineFetch
    \/ LuaFetch
    \/ Report
    \/ FinalCleanup
    \/ DelBatch
    \/ DelReturn

Spec == Init /\ [][Next]_vars

(***************************************************************************)
(* deleteInsertedKeys on its own: called, as by the final cleanup, with a  *)
(* list of any length up to MaxKeys on a store that holds any of its keys. *)
(***************************************************************************)
DelLists == {[j \in 1..l |-> Key("bench:", j)] : l \in 0..MaxKeys}

InitDel ==
    /\ variant \in {1, 2}
    /\ sampleCounts = <<0>>
    /\ delKeys \in DelLists
    /\ insertedKeys = delKeys
    /\ store \in {[k \in S |-> StrVal(Marshal(Record(k[2], "aaaaaaaa@example.com")))] :
                    S \in SUBSET Range(delKeys)}
    /\ store0 = store
    /\ pc = "del"
    /\ delPos = 0
    /\ delRet = "done"
    /\ idx = 2
    /\ i = 0
    /\ nextId = Len(delKeys) + 1
    /\ recs = <<>>
    /\ keys = <<>>
    /\ hashKeys = <<>>
    /\ prevKeys = <<>>
    /\ err = "none"
    /\ beforeBytes = 0
    /\ afterBytes = 0
    /\ deltaBytes = 0
    /\ human = ""
    /\ reads = <<>>
    /\ pipeRes = <<>>
    /\ luaRes = <<>>
    /\ rows = <<0>>
    /\ cmds = <<>>
    /\ lastInfo = <<>>

NextDel ==
    \/ DelBatch
    \/ DelReturn

SpecDel == InitDel /\ [][NextDel]_vars

(***************************************************************************)
(* Properties.                                                             *)
(***************************************************************************)
\* C1: no command of a run removes a key the run did not write and record:
\* every key the store held before the run is still there with its value (no
\* flush has removed it), and every key passed to DEL is in insertedKeys.
\* (Stated as claimed; the second program's FLUSHDB refutes it.)
C1_NoForeignRemoval ==
    /\ \A k \in DOMAIN store0 : k \in DOMAIN store /\ store[k] = store0[k]
    /\ \A j \in 1..Len(cmds) :
        cmds[j].op = "DEL" => Range(cmds[j].keys) \subseteq Range(insertedKeys)

\* C2: direct round trip: every SET and HSET of the write phase and every GET
\* and HGET of the direct read succeeds on the store, and the direct read
\* returns the payload and the email written for the record.
\* (Stated as claimed; the first program's HSET on its string key refutes it.)
C2_DirectRoundTrip ==
    /\ \A j \in 1..Len(cmds) :
        cmds[j].phase \in {"write", "direct"} => cmds[j].res \in {"none", "conn"}
    /\ \A j \in 1..Len(reads) :
        /\ reads[j].get = <<Marshal(recs[j])>>
        /\ reads[j].hget # <<>> => reads[j].hget = <<recs[j].Email>>

\* C3: when a run completes without error the store is what it was before
\* the run.  (Stated as claimed; the second program's FLUSHDB refutes it.)
C3_StoreRestored == pc = "done" => store = store0

RECURSIVE SumSizes(_, _)
SumSizes(s, k) == IF k = 0 THEN 0 ELSE s[k] + SumSizes(s, k - 1)

\* C4 as claimed: after the write phase of size n the tracker insertedKeys
\* holds exactly n * k distinct keys.
C4_TrackedCount ==
    pc = "memAfter" =>
        Cardinality(Range(insertedKeys)) = n * KeysPerRecord(variant)

\* C4 as amended: after the write phase of size n the key lists of that size
\* hold exactly n * k distinct keys, and insertedKeys, which is never
\* cleared, holds k times the sum of the sizes written so far, without
\* duplicates.
C4_TrackedCountPerSize ==
    pc = "memAfter" =>
        /\ Cardinality(Range(GetKeys) \cup Range(HGetKeys)) = n * KeysPerRecord(variant)
        /\ variant = 1 => Cardinality(Range(prevKeys)) = n
        /\ Cardinality(Range(insertedKeys)) =
              KeysPerRecord(variant) * SumSizes(sampleCounts, idx)
        /\ Len(insertedKeys) = Cardinality(Range(insertedKeys))

\* the second size of the list <<1, 2>> has been written by the second program
C4_Witness ==
    /\ pc = "memAfter"
    /\ variant = 2
    /\ sampleCounts = <<1, 2>>
    /\ idx = 2

\* C5: every read command (direct, pipelined, script) of a dataset size is
\* issued after all n SET and all n HSET commands of that size have
\* succeeded, and reads only keys written for that size.
C5_WrittenBeforeRead ==
    \A j \in 1..Len(cmds) :
        cmds[j].phase \in {"direct", "pipeline", "script"} =>
            LET s == cmds[j].size
                W(op) == {l \in 1..(j - 1) :
                            /\ cmds[l].size = s
                            /\ cmds[l].phase = "write"
                            /\ cmds[l].op = op
                            /\ cmds[l].res = "none"}
            IN  /\ Cardinality(W("SET")) = sampleCounts[s]
                /\ Cardinality(W("HSET")) = sampleCounts[s]
                /\ Range(cmds[j].keys) \subseteq
                      UNION {Range(cmds[l].keys) : l \in W("SET") \cup W("HSET")}

\* the direct read of the second record of a dataset is under way
C5_Witness ==
    /\ pc = "hget"
    /\ i = 1
    /\ n = 2
    /\ cmds[Len(cmds)].op = "GET"

\* C6: fail-fast: a store command that failed is the last command the run
\* issued (it is not retried and nothing follows it), the run has terminated
\* with that error, and no row exists for the dataset size in progress.
C6_FailFast ==
    /\ \A j \in 1..Len(cmds) :
        cmds[j].res # "none" =>
            /\ j = Len(cmds)
            /\ pc = "fatal"
            /\ err = cmds[j].res
    /\ pc = "fatal" <=> err # "none"
    /\ pc = "fatal" => cmds # <<>> /\ cmds[Len(cmds)].res # "none"
    /\ Len(rows) < idx

\* the connection failed at a GET of the second size's direct read
C6_Witness ==
    /\ pc = "fatal"
    /\ idx = 2
    /\ cmds[Len(cmds)].op = "GET"
    /\ cmds[Len(cmds)].res = "conn"
    /\ Len(rows) = 1

\* C7: cleanup is idempotent: from any state of a run, deleteInsertedKeys
\* over a tracked list succeeds, a second one directly after it succeeds and
\* leaves the store as the first left it; no DEL of the run fails on the
\* store, and after the final cleanup no tracked key is in the store, also
\* when some of them were already absent.
C7_CleanupIdempotent ==
    /\ \A ks \in {insertedKeys, prevKeys, delKeys} :
        LET first  == DeleteInsertedKeys(store, ks, 0)
            second == DeleteInsertedKeys(first.st, ks, 0)
        IN  /\ first.err = "none"
            /\ second.err = "none"
            /\ second.st = first.st
            /\ Range(ks) \cap DOMAIN first.st = {}
    /\ \A j \in 1..Len(cmds) :
        cmds[j].op = "DEL" => cmds[j].res \in {"none", "conn"}
    /\ pc = "done" => Range(insertedKeys) \cap DOMAIN store = {}

\* the final cleanup has completed although the keys of the first size were
\* removed before it began
C7_Witness ==
    /\ pc = "done"
    /\ Len(sampleCounts) = 2
    /\ sampleCounts[1] > 0
    /\ \E j \in 1..Len(cmds) : cmds[j].op = "DEL" /\ cmds[j].res = "none"

\* the DEL commands of the cleanup of the current loop position
IsCurrentDel(c) == c.op = "DEL" /\ c.size = idx /\ c.res = "none"

\* C8 as claimed: a cleanup leaves the tracked list empty, and no key is
\* passed to DEL by two cleanups.
C8_CleanupEmptiesTracked ==
    /\ pc = "done" => insertedKeys = <<>>
    /\ pc = "memBefore" => prevKeys = <<>>
    /\ \A j, l \in 1..Len(cmds) :
        (cmds[j].op = "DEL" /\ cmds[l].op = "DEL" /\ cmds[j].size # cmds[l].size)
            => Range(cmds[j].keys) \cap Range(cmds[l].keys) = {}

\* C8 as amended: a cleanup passes every key of the list it is given to DEL,
\* in consecutive chunks in list order; the per-size cleanup leaves prevKeys
\* empty, and the final cleanup is given all of insertedKeys, which is never
\* emptied.
C8_CleanupDeletesGivenList ==
    LET ds == SelectSeq(cmds, IsCurrentDel)
    IN  /\ pc \in {"del", "done"} =>
            /\ \A m \in 1..Len(ds) :
                ds[m].keys = SubSeq(delKeys, (m - 1) * batchSize + 1,
                                    Min(m * batchSize, Len(delKeys)))
            /\ Len(ds) * batchSize = delPos
        /\ pc = "done" =>
            /\ delKeys = insertedKeys
            /\ delPos >= Len(delKeys)
            /\ Range(delKeys) = UNION {Range(ds[m].keys) : m \in 1..Len(ds)}
            /\ Range(delKeys) \cap DOMAIN store = {}
            /\ Len(insertedKeys) = KeysPerRecord(variant) * SumSizes(sampleCounts, Len(sampleCounts))
        /\ pc = "memBefore" => prevKeys = <<>>

\* a final cleanup of more keys than one chunk has completed
C8_Witness ==
    /\ pc = "done"
    /\ Len(insertedKeys) > batchSize

PhaseRank(p) ==
    CASE p = "cleanup" -> 0
      [] p = "memBefore" -> 1
      [] p = "write" -> 2
      [] p = "memAfter" -> 3
      [] p = "direct" -> 4
      [] p = "pipeline" -> 5
      [] p = "script" -> 6

\* C9: the sizes are processed one after another in list order; within a
\* size the commands come in the order sample, write, sample, direct read,
\* pipelined read, script read; the row is reported after the script read;
\* and the cleanup step (DEL of the previous keys, or FLUSHDB) comes before
\* any other command of the next size.
C9_SizesInOrder ==
    /\ rows = SubSeq(sampleCounts, 1, Len(rows))
    /\ Len(rows) = idx - 1
    /\ cmds # <<>> =>
        /\ cmds[1].size = 1
        /\ cmds[Len(cmds)].size \in {idx - 1, idx}
        /\ cmds[Len(cmds)].size = idx - 1 =>
              cmds[Len(cmds)].phase = "script" /\ cmds[Len(cmds)].res = "none"
    /\ \A j \in 1..(Len(cmds) - 1) :
        LET a == cmds[j]
            b == cmds[j + 1]
        IN  IF a.size = b.size
            THEN PhaseRank(a.phase) <= PhaseRank(b.phase)
            ELSE /\ b.size = a.size + 1
                 /\ a.phase = "script"
                 /\ (variant = 2 \/ sampleCounts[a.size] > 0) => b.phase = "cleanup"

\* two sizes, the first not empty, have been processed and cleaned up
C9_Witness ==
    /\ pc = "done"
    /\ Len(rows) = 2
    /\ rows[1] > 0

\* C10: the script read over the n keys of a dataset returns n entries, and
\* entry j is the pair (payload, email) written for the j-th record, whose
\* keys are the j-th keys passed to the script.
C10_ScriptResultInOrder ==
    pc = "report" =>
        /\ Len(luaRes) = n
        /\ Len(keys) = n
        /\ \A j \in 1..n :
            /\ luaRes[j] = << <<Marshal(recs[j])>>, <<recs[j].Email>> >>
            /\ GetKeys[j] = SetKey(variant, recs[j])
            /\ HGetKeys[j] = HSetKey(variant, recs[j])
        /\ cmds[Len(cmds)].op = "EVALSHA"
        /\ cmds[Len(cmds)].keys = ScriptArgs

\* the script has returned two different entries for a dataset of two records
C10_Witness ==
    /\ pc = "report"
    /\ n = 2
    /\ luaRes[1] # luaRes[2]

\* C11: a memory sample whose INFO text has no "used_memory:" line yields 0
\* bytes, one with no "used_memory_human:" line yields the empty string,
\* other lines are ignored, and the run goes on; the run ends at a memory
\* sample only when the INFO command itself failed.
C11_ParseMissNotFatal ==
    (cmds # <<>> /\ cmds[Len(cmds)].op = "INFO") =>
        LET last  == cmds[Len(cmds)]
            bytes == IF last.phase = "memBefore" THEN beforeBytes ELSE afterBytes
            names == {lastInfo[j].name : j \in 1..Len(lastInfo)}
        IN  IF last.res = "none"
            THEN /\ pc \in {"set", "memAfter", "get", "pipe", "lua"}
                 /\ err = "none"
                 /\ "used_memory" \notin names => bytes = 0
                 /\ "used_memory_human" \notin names => human = ""
                 /\ \A j \in 1..Len(lastInfo) :
                        /\ lastInfo[j].name = "used_memory" => bytes = lastInfo[j].num
                        /\ lastInfo[j].name = "used_memory_human" =>
                              human = lastInfo[j].text
            ELSE pc = "fatal" /\ err = last.res /\ last.res = "conn"

\* a sample before the insert loop got a text with neither line, and the
\* insert loop is about to start
C11_Witness ==
    /\ pc = "set"
    /\ i = 0
    /\ cmds[Len(cmds)].op = "INFO"
    /\ cmds[Len(cmds)].res = "none"
    /\ lastInfo # <<>>
    /\ \A j \in 1..Len(lastInfo) :
        lastInfo[j].name \notin {"used_memory", "used_memory_human"}
    /\ beforeBytes = 0
    /\ human = ""

IsDel(c) == c.op = "DEL"

\* C12: deleteInsertedKeys on a list of length L issues ceil(L / batchSize)
\* DEL commands when none fails: consecutive slices of the list in order,
\* each of 1..batchSize keys, the last holding the L mod batchSize remaining
\* keys, every key in exactly one chunk; a DEL that fails is the last one.
C12_ChunkedDelete ==
    LET L    == Len(delKeys)
        ds   == SelectSeq(cmds, IsDel)
        full == (L + batchSize - 1) \div batchSize
    IN  /\ Len(ds) <= full
        /\ \A m \in 1..Len(ds) :
            /\ ds[m].keys = SubSeq(delKeys, (m - 1) * batchSize + 1,
                                   IF m * batchSize < L THEN m * batchSize ELSE L)
            /\ Len(ds[m].keys) \in 1..batchSize
            /\ m < Len(ds) => ds[m].res = "none"
        /\ pc = "done" =>
            /\ Len(ds) = full
            /\ \A m \in 1..Len(ds) : ds[m].res = "none"
            /\ L % batchSize # 0 => Len(ds[full].keys) = L % batchSize
            /\ \A p \in 1..L :
                Cardinality({m \in 1..Len(ds) : delKeys[p] \in Range(ds[m].keys)}) = 1
        /\ pc = "fatal" =>
            /\ ds # <<>>
            /\ ds[Len(ds)].res # "none"
            /\ err = ds[Len(ds)].res
        /\ pc = "del" => Len(ds) * batchSize = delPos

\* a list of five keys has been deleted in three chunks, the last of one key
C12_Witness ==
    /\ pc = "done"
    /\ Len(delKeys) = 2 * batchSize + 1
    /\ Len(cmds) = 3
    /\ Len(cmds[3].keys) = 1

\* the keys the write phase of the s-th size sent to the store, and those of
\* them the store holds
WrittenFor(s) ==
    UNION {Range(cmds[j].keys) :
            j \in {l \in 1..Len(cmds) : cmds[l].phase = "write" /\ cmds[l].size = s}}
PresentFor(s) == WrittenFor(s) \cap DOMAIN store

BenchPrefixes(v) == IF v = 1 THEN {"bench:"} ELSE {"bench:json:", "bench:hash:"}

IsCurrentSet(c) == c.op = "SET" /\ c.size = idx
IsCurrentHSet(c) == c.op = "HSET" /\ c.size = idx

\* C14: every key the run writes or tracks is a "bench:" prefix of its
\* program followed by the id of the record it was made for, and no two
\* records share a key.
C14_KeysNamespaced ==
    /\ \A j \in 1..Len(cmds) :
        cmds[j].phase = "write" =>
            \A k \in Range(cmds[j].keys) : k[1] \in BenchPrefixes(variant)
    /\ \A k \in Range(insertedKeys) \cup Range(prevKeys) :
        k[1] \in BenchPrefixes(variant)
    /\ pc \in {"set", "hset", "memAfter", "get", "hget", "pipe", "lua", "report"} =>
        LET sets  == SelectSeq(cmds, IsCurrentSet)
            hsets == SelectSeq(cmds, IsCurrentHSet)
        IN  /\ Len(sets) = Len(recs)
            /\ \A j \in 1..Len(sets) : sets[j].keys[1][2] = recs[j].ID
            /\ \A j \in 1..Len(hsets) : hsets[j].keys[1][2] = recs[j].ID
    /\ \A j, l \in 1..Len(cmds) :
        (j # l /\ cmds[j].phase = "write" /\ cmds[j].op = cmds[l].op)
            => cmds[j].keys # cmds[l].keys
    /\ Len(insertedKeys) = Cardinality(Range(insertedKeys))

\* the second program has written and tracked the keys of two records
C14_Witness ==
    /\ variant = 2
    /\ pc = "memAfter"
    /\ n = 2
    /\ Len(insertedKeys) >= 4

\* the keys a logged command reads or writes as a string (SET, GET), and
\* those it reads or writes as a hash (HSET, HGET)
StringKeysOf(c) ==
    CASE c.op \in {"SET", "GET"} -> Range(c.keys)
      [] c.op = "EXEC" -> {c.keys[j] : j \in {l \in 1..Len(c.keys) : l % 2 = 1}}
      [] c.op = "EVALSHA" ->
            IF variant = 1 THEN Range(c.keys)
            ELSE {c.keys[j] : j \in 1..(Len(c.keys) \div 2)}
      [] OTHER -> {}
HashKeysOf(c) ==
    CASE c.op \in {"HSET", "HGET"} -> Range(c.keys)
      [] c.op = "EXEC" -> {c.keys[j] : j \in {l \in 1..Len(c.keys) : l % 2 = 0}}
      [] c.op = "EVALSHA" ->
            IF variant = 1 THEN Range(c.keys)
            ELSE {c.keys[j] : j \in (Len(c.keys) \div 2 + 1)..Len(c.keys)}
      [] OTHER -> {}

\* C15: no key is the target of a string command and of a hash command, and
\* no command of the run fails with WRONGTYPE.
\* (Stated as claimed; the first program's SET and HSET of one key refute it.)
C15_OneTypePerKey ==
    /\ UNION {StringKeysOf(cmds[j]) : j \in 1..Len(cmds)}
          \cap UNION {HashKeysOf(cmds[j]) : j \in 1..Len(cmds)} = {}
    /\ \A j \in 1..Len(cmds) : cmds[j].res # "WRONGTYPE"

\* C16: the memory samples and the three reads change neither the store nor
\* the tracked key lists: every step taken from the sample after the write
\* phase up to the report leaves store, insertedKeys, prevKeys and the key
\* lists of the size as they were, and so does the sample before the write
\* phase for store, insertedKeys and prevKeys.
C16_ReadsChangeNothing ==
    [][/\ pc \in {"memAfter", "get", "hget", "pipe", "lua", "report"} =>
            /\ store' = store
            /\ insertedKeys' = insertedKeys
            /\ prevKeys' = prevKeys
            /\ keys' = keys
            /\ hashKeys' = hashKeys
       /\ pc = "memBefore" =>
            /\ store' = store
            /\ insertedKeys' = insertedKeys
            /\ prevKeys' = prevKeys]_vars

\* the three reads of a dataset of two records have returned and the store
\* still holds the four keys of the dataset
C16_Witness ==
    /\ pc = "report"
    /\ variant = 2
    /\ n = 2
    /\ Len(reads) = 2
    /\ Len(pipeRes) = 4
    /\ Len(luaRes) = 2
    /\ Range(keys) \cup Range(hashKeys) \subseteq DOMAIN store

====
